---- MODULE Spec2Model ----
(***************************************************************************)
(* Model of src/app.py: filename sanitisation (safe_name), the best-combo  *)
(* stream selection (choose_best_video_combo) and the per-item / playlist  *)
(* acquisition pipeline (download_single_video_auto, download_playlist).   *)
(*                                                                         *)
(* Strings are sequences of one-character strings, so that the label       *)
(* parsers (rstrip, isdigit, int) and the sanitiser are computed the way   *)
(* the code computes them.  A stream object is identified by its position  *)
(* in yt.streams; lists of streams are sequences of positions.             *)
(***************************************************************************)
EXTENDS Integers, Sequences, FiniteSets, TLC

VARIABLES
    name, max_length, safe, safe2, npc,          \* safe_name harness
    streams, decision, video_stream, audio_stream, \* yt.streams and the selection
    pc, idx, mode, n_urls, pl_folder, title,     \* playlist walk
    fs, fs0, ret, visited, log, used

nameVars == <<name, max_length, safe, safe2, npc>>
selVars  == <<streams, decision, video_stream, audio_stream>>
walkVars == <<pc, idx, mode, n_urls, pl_folder, title, fs, fs0, ret, visited,
             log, used>>
vars     == <<nameVars, selVars, walkVars>>

----------------------------------------------------------------------------
(* Bounds *)
MaxNameLen == 3     \* longest title fed to safe_name
MaxStreams == 3     \* longest catalog fed to choose_best_video_combo
MaxItems   == 2     \* playlist length

(* Program constants *)
MaxRes           == 1080
DefaultMaxLength == 255

----------------------------------------------------------------------------
(* Python values *)
None     == <<"None">>      \* the None object where a string is expected
NoStream == 0               \* the None object where a stream is expected

Min(a, b) == IF a < b THEN a ELSE b

\* the space and the tab, a whitespace that is not a space
Whitespace == {" ", "\t"}
Forbidden  == {"\\", "/", "*", "?", ":", "\"", "<", ">", "|"}
Digits     == {"0", "1", "2", "3", "4", "5", "6", "7", "8", "9"}

DigitVal(c) ==
    CASE c = "0" -> 0 [] c = "1" -> 1 [] c = "2" -> 2 [] c = "3" -> 3
      [] c = "4" -> 4 [] c = "5" -> 5 [] c = "6" -> 6 [] c = "7" -> 7
      [] c = "8" -> 8 [] c = "9" -> 9

\* str.rstrip(chars): drop every trailing character that is in chars
RECURSIVE rstrip(_, _)
rstrip(s, chars) ==
    IF s = <<>> \/ s[Len(s)] \notin chars THEN s
    ELSE rstrip(SubSeq(s, 1, Len(s) - 1), chars)

\* str.lstrip(chars)
RECURSIVE lstrip(_, _)
lstrip(s, chars) ==
    IF s = <<>> \/ s[1] \notin chars THEN s
    ELSE lstrip(Tail(s), chars)

\* str.strip(): drop leading and trailing whitespace
strip(s) == lstrip(rstrip(s, Whitespace), Whitespace)

\* str.isdigit()
isdigit(s) == s # <<>> /\ \A i \in 1..Len(s) : s[i] \in Digits

\* int(s) for a string of decimal digits
RECURSIVE int(_)
int(s) ==
    IF s = <<>> THEN 0
    ELSE int(SubSeq(s, 1, Len(s) - 1)) * 10 + DigitVal(s[Len(s)])

\* re.sub(r'[\\/*?:"<>|]', "", name)
re_sub(s) == SelectSeq(s, LAMBDA c : c \notin Forbidden)

\* str.replace(" ", "_")
replace(s) == [i \in 1..Len(s) |-> IF s[i] = " " THEN "_" ELSE s[i]]

safe_name(n, maxlen) ==
    LET safe_ == replace(strip(re_sub(n)))
    IN  SubSeq(safe_, 1, Min(Len(safe_), maxlen))

----------------------------------------------------------------------------
(* Stream labels *)
R720  == <<"7", "2", "0", "p">>
R1080 == <<"1", "0", "8", "0", "p">>
R1440 == <<"1", "4", "4", "0", "p">>
RBad  == <<"H", "D">>
A128  == <<"1", "2", "8", "k", "b", "p", "s">>
A160  == <<"1", "6", "0", "k", "b", "p", "s">>
ABad  == <<"h", "i">>

VideoOnly ==
    [mime_type : {"video"}, includes_audio_track : {FALSE},
     resolution : {None, R720, R1080, R1440, RBad}, abr : {None}]
Progressive ==
    [mime_type : {"video"}, includes_audio_track : {TRUE},
     resolution : {R720, R1080, R1440}, abr : {None, A128, A160}]
AudioOnly ==
    [mime_type : {"audio"}, includes_audio_track : {TRUE},
     resolution : {None}, abr : {None, A128, A160, ABad}]
Stream == VideoOnly \cup Progressive \cup AudioOnly

Catalogs(n) == UNION {[1..k -> Stream] : k \in 0..n}

res_to_int(res) ==
    IF res = None THEN 0
    ELSE IF isdigit(rstrip(res, {"p"})) THEN int(rstrip(res, {"p"})) ELSE 0

\* truth value of an optional string
Truthy(s) == s # None /\ s # <<>>

audio_bitrate(s) ==
    IF Truthy(s.abr) /\ isdigit(rstrip(s.abr, {"k", "b", "p", "s"}))
    THEN int(rstrip(s.abr, {"k", "b", "p", "s"})) ELSE 0

audio_bitrate_2(s) ==
    IF Truthy(s.abr) /\ isdigit(rstrip(s.abr, {"k", "b", "p", "s"}))
    THEN int(rstrip(s.abr, {"k", "b", "p", "s"})) ELSE 0

\* list.sort(key=..., reverse=True): stable, descending.  l is a sequence of
\* positions, key a function from positions to integers.
RECURSIVE sort_desc(_, _)
sort_desc(l, key) ==
    IF l = <<>> THEN <<>>
    ELSE LET x    == l[Len(l)]
             rest == sort_desc(SubSeq(l, 1, Len(l) - 1), key)
             \* x goes after every element whose key is >= its own
             n    == Cardinality({i \in 1..Len(rest) : key[rest[i]] >= key[x]})
         IN  SubSeq(rest, 1, n) \o <<x>> \o SubSeq(rest, n + 1, Len(rest))

Positions(st) == [i \in 1..Len(st) |-> i]

video_streams(st) ==
    SelectSeq(Positions(st), LAMBDA i : st[i].mime_type = "video")

\* variant: the cap on the resolution is not applied
filtered_unsorted_NoCap(st) ==
    SelectSeq(video_streams(st), LAMBDA i : Truthy(st[i].resolution))

filtered_unsorted(st) ==
    SelectSeq(video_streams(st),
              LAMBDA i : Truthy(st[i].resolution)
                         /\ res_to_int(st[i].resolution) <= MaxRes)

filtered(st) ==
    sort_desc(filtered_unsorted(st),
              [i \in 1..Len(st) |-> res_to_int(st[i].resolution)])

best_res(st) == res_to_int(st[filtered(st)[1]].resolution)

best_group(st) ==
    LET best == best_res(st)
    IN  SelectSeq(filtered(st),
                  LAMBDA i : res_to_int(st[i].resolution) = best)

\* variant: only the first stream of the best group is examined
progressive_streams_FirstOnly(st) ==
    IF st[best_group(st)[1]].includes_audio_track
    THEN sort_desc(SelectSeq(best_group(st),
                             LAMBDA i : st[i].includes_audio_track),
                   [i \in 1..Len(st) |-> audio_bitrate(st[i])])
    ELSE <<>>

\* variant: the progressive streams are not sorted by bitrate
progressive_streams_Unsorted(st) ==
    SelectSeq(best_group(st), LAMBDA i : st[i].includes_audio_track)

progressive_streams(st) ==
    sort_desc(SelectSeq(best_group(st), LAMBDA i : st[i].includes_audio_track),
              [i \in 1..Len(st) |-> audio_bitrate(st[i])])

\* variant: the last stream of the best group is taken
best_video_Last(st) == best_group(st)[Len(best_group(st))]

best_video(st) == best_group(st)[1]

\* variant: the audio-only streams are left in catalog order
audio_streams_Unsorted(st) ==
    SelectSeq(Positions(st), LAMBDA i : st[i].mime_type = "audio")

audio_streams(st) ==
    sort_desc(SelectSeq(Positions(st), LAMBDA i : st[i].mime_type = "audio"),
              [i \in 1..Len(st) |-> audio_bitrate_2(st[i])])

best_audio(st) ==
    LET sorted == audio_streams(st)
    IN  IF sorted # <<>> THEN sorted[1] ELSE NoStream

\* returns <<mode, video_stream, audio_stream>>
choose_best_video_combo(st) ==
    IF filtered_unsorted(st) = <<>> THEN <<"None", NoStream, NoStream>>
    ELSE LET progressive == progressive_streams(st)
         IN  IF progressive # <<>>
             THEN <<"progressive", progressive[1], NoStream>>
             ELSE <<"merge", best_video(st), best_audio(st)>>

----------------------------------------------------------------------------
(* Values the variables hold while the code that owns them is not running *)
NameIdle == name = <<>> /\ max_length = 0 /\ safe = <<>> /\ safe2 = <<>>
            /\ npc = "idle"
SelIdle  == streams = <<>> /\ decision = "unset"
            /\ video_stream = NoStream /\ audio_stream = NoStream
WalkIdle == pc = "idle" /\ idx = 0 /\ mode = "video" /\ n_urls = 0
            /\ pl_folder = <<>> /\ title = None /\ fs = {} /\ fs0 = {}
            /\ ret = 0
            /\ visited = <<>> /\ log = <<>> /\ used = <<>>

----------------------------------------------------------------------------
(* safe_name applied once and then to its own result *)
NameAlphabet == {"a", " ", "\t", ":"}
Names(n) == UNION {[1..k -> NameAlphabet] : k \in 0..n}

InitName ==
    /\ name \in Names(MaxNameLen)
    /\ max_length \in (0..MaxNameLen) \cup {DefaultMaxLength}
    /\ safe = <<>> /\ safe2 = <<>> /\ npc = "start"
    /\ SelIdle /\ WalkIdle

Sanitize ==
    /\ npc = "start"
    /\ safe' = safe_name(name, max_length)
    /\ npc' = "once"
    /\ UNCHANGED <<name, max_length, safe2, selVars, walkVars>>

Resanitize ==
    /\ npc = "once"
    /\ safe2' = safe_name(safe, max_length)
    /\ npc' = "twice"
    /\ UNCHANGED <<name, max_length, safe, selVars, walkVars>>

NextName == Sanitize \/ Resanitize
SpecName == InitName /\ [][NextName]_vars

----------------------------------------------------------------------------
(* choose_best_video_combo applied to an arbitrary catalog *)
InitSel ==
    /\ streams \in Catalogs(MaxStreams)
    /\ decision = "unset"
    /\ video_stream = NoStream /\ audio_stream = NoStream
    /\ NameIdle /\ WalkIdle

\* variant: the catalog itself is sorted by resolution before selecting
Choose_SortsInPlace ==
    /\ decision = "unset"
    /\ \E r \in {choose_best_video_combo(streams)} :
         /\ decision' = r[1]
         /\ video_stream' = r[2]
         /\ audio_stream' = r[3]
    /\ LET order == sort_desc(Positions(streams),
                              [i \in 1..Len(streams) |->
                                  res_to_int(streams[i].resolution)])
       IN  streams' = [i \in 1..Len(streams) |-> streams[order[i]]]
    /\ UNCHANGED <<nameVars, walkVars>>

Choose ==
    /\ decision = "unset"
    /\ \E r \in {choose_best_video_combo(streams)} :
         /\ decision' = r[1]
         /\ video_stream' = r[2]
         /\ audio_stream' = r[3]
    /\ UNCHANGED <<streams, nameVars, walkVars>>

NextSel == Choose
SpecSel == InitSel /\ [][NextSel]_vars

----------------------------------------------------------------------------
(* The playlist walk: download_playlist calling download_single_video_auto *)

Downloads == <<"d", "o", "w", "n", "l", "o", "a", "d", "s">>
Untitled  == <<"U", "n", "t", "i", "t", "l", "e", "d", "_",
               "P", "l", "a", "y", "l", "i", "s", "t">>
VideoSuffix == <<"_", "v", "i", "d", "e", "o", ".", "m", "p", "4">>
AudioSuffix == <<"_", "a", "u", "d", "i", "o", ".", "m", "p", "4">>
Mp4Suffix   == <<".", "m", "p", "4">>
ModeName(m) == IF m = "audio" THEN <<"a", "u", "d", "i", "o">>
               ELSE <<"v", "i", "d", "e", "o">>

\* os.path.join(p, seg): a path is the sequence of its segments
join(p, seg) == IF seg = <<>> THEN p ELSE Append(p, seg)

\* os.makedirs(p, exist_ok=True): p and every missing parent
makedirs(p) == {SubSeq(p, 1, k) : k \in 1..Len(p)}

base_downloads == <<Downloads>>

\* what the catalog provider may answer
PlaylistTitles == {<<>>, <<"P", " ", "1">>}
Titles == {<<"a">>, <<"a", ":">>, <<"b", " ", "c">>}
PipelineCatalogs ==
    LET V(r)  == [mime_type |-> "video", includes_audio_track |-> FALSE,
                  resolution |-> r, abr |-> None]
        P(r)  == [mime_type |-> "video", includes_audio_track |-> TRUE,
                  resolution |-> r, abr |-> A128]
        Au    == [mime_type |-> "audio", includes_audio_track |-> TRUE,
                  resolution |-> None, abr |-> A128]
    IN  { <<V(R1440), Au>>, <<P(R720)>>, <<V(R1080), Au>>, <<V(R1080)>> }

\* locals of download_single_video_auto
video_folder   == join(pl_folder, safe_name(title, DefaultMaxLength))
base           == safe_name(title, DefaultMaxLength)
video_path     == join(video_folder, base \o VideoSuffix)
audio_path     == join(video_folder, base \o AudioSuffix)
merged_path    == join(video_folder, base \o Mp4Suffix)

\* a download that raised may leave a partial file behind
AfterFailedDownload(path) == {fs, fs \cup {path}}

ResetItem ==
    /\ title' = None /\ streams' = <<>> /\ decision' = "unset"
    /\ video_stream' = NoStream /\ audio_stream' = NoStream
    /\ ret' = -1 /\ log' = <<>>
    /\ fs0' = fs      \* the filesystem as this item found it

InitWalk ==
    /\ pc = "start" /\ idx = 0
    /\ mode \in {"audio", "video"}
    /\ n_urls \in 0..MaxItems
    /\ pl_folder = <<>> /\ title = None
    /\ fs = {base_downloads} /\ fs0 = {base_downloads}
    /\ ret = -1 /\ visited = <<>> /\ log = <<>> /\ used = <<>>
    /\ SelIdle /\ NameIdle

\* Playlist(playlist_url) raised: reported, download_playlist returns
PlaylistInitError ==
    /\ pc = "start"
    /\ pc' = "done"
    /\ UNCHANGED <<used, fs0, idx, mode, n_urls, pl_folder, title, fs, ret,
                   visited, log,
                   selVars, nameVars>>

\* pl.title / pl.video_urls raised outside any try
PlaylistMetaError ==
    /\ pc = "start"
    /\ pc' = "crashed"
    /\ UNCHANGED <<used, fs0, idx, mode, n_urls, pl_folder, title, fs, ret,
                   visited, log,
                   selVars, nameVars>>

PlaylistOpen ==
    /\ pc = "start"
    /\ \E t \in PlaylistTitles :
         LET pl_title == IF t # <<>> THEN t ELSE Untitled
         IN  pl_folder' = join(join(base_downloads,
                                    safe_name(pl_title, DefaultMaxLength)),
                               ModeName(mode))
    /\ fs' = fs \cup makedirs(pl_folder')
    /\ idx' = 1
    /\ pc' = "loop"
    /\ UNCHANGED <<used, fs0, mode, n_urls, title, ret, visited, log, selVars,
                   nameVars>>

\* the for loop is exhausted
LoopExit ==
    /\ pc = "loop" /\ idx > n_urls
    /\ pc' = "done"
    /\ UNCHANGED <<used, fs0, idx, mode, n_urls, pl_folder, title, fs, ret,
                   visited, log,
                   selVars, nameVars>>

\* variant: a failed construction is tried again on the same item
VideoInitError_Retry ==
    /\ pc = "loop" /\ idx <= n_urls
    /\ visited' = Append(visited, idx)
    /\ ResetItem
    /\ pc' = "loop"
    /\ UNCHANGED <<used, idx, mode, n_urls, pl_folder, fs, nameVars>>

\* YouTube(video_url, ...) raised: reported, continue
VideoInitError ==
    /\ pc = "loop" /\ idx <= n_urls
    /\ visited' = Append(visited, idx)
    /\ ResetItem
    /\ idx' = idx + 1
    /\ pc' = "loop"
    /\ UNCHANGED <<used, mode, n_urls, pl_folder, fs, nameVars>>

VideoInit ==
    /\ pc = "loop" /\ idx <= n_urls
    /\ visited' = Append(visited, idx)
    /\ ResetItem
    /\ pc' = "title"
    /\ UNCHANGED <<used, idx, mode, n_urls, pl_folder, fs, nameVars>>

\* print("Title:", yt.title) raised outside any try
TitleError ==
    /\ pc = "title"
    /\ pc' = "crashed"
    /\ UNCHANGED <<used, fs0, idx, mode, n_urls, pl_folder, title, fs, ret,
                   visited, log,
                   selVars, nameVars>>

Title ==
    /\ pc = "title"
    /\ title' \in Titles
    /\ pc' = "auto"
    /\ UNCHANGED <<used, fs0, idx, mode, n_urls, pl_folder, fs, ret, visited,
                   log,
                   selVars, nameVars>>

\* os.makedirs(video_folder, exist_ok=True) raised outside any try
MakedirsError ==
    /\ pc = "auto"
    /\ pc' = "crashed"
    /\ UNCHANGED <<used, fs0, idx, mode, n_urls, pl_folder, title, fs, ret,
                   visited, log,
                   selVars, nameVars>>

Makedirs ==
    /\ pc = "auto"
    /\ fs' = fs \cup makedirs(video_folder)
    /\ log' = Append(log, "makedirs")
    /\ used' = Append(used, [item |-> idx, folder |-> video_folder,
                             video |-> video_path, audio |-> audio_path,
                             merged |-> merged_path])
    /\ pc' = IF mode = "audio" THEN "audio_get" ELSE "select"
    /\ UNCHANGED <<fs0, idx, mode, n_urls, pl_folder, title, ret, visited,
                   selVars, nameVars>>

\* yt.streams raised outside any try (either mode)
StreamsError ==
    /\ pc \in {"audio_get", "select"}
    /\ pc' = "crashed"
    /\ UNCHANGED <<used, fs0, idx, mode, n_urls, pl_folder, title, fs, ret,
                   visited, log,
                   selVars, nameVars>>

\* mode "audio": stream = yt.streams.get_audio_only()
GetAudioOnly ==
    /\ pc = "audio_get"
    /\ streams' \in PipelineCatalogs
    /\ \/ /\ audio_streams(streams') = <<>>
          /\ audio_stream' = NoStream
          /\ pc' = "item_end"
       \/ /\ audio_streams(streams') # <<>>
          /\ audio_stream' = audio_streams(streams')[1]
          /\ pc' = "audio_dl"
    /\ UNCHANGED <<used, fs0, decision, video_stream, idx, mode, n_urls,
                   pl_folder,
                   title, fs, ret, visited, log, nameVars>>

AudioDownload ==
    /\ pc = "audio_dl"
    /\ \/ /\ fs' = fs \cup {audio_path}
          /\ log' = Append(log, "dl")
       \/ /\ fs' \in AfterFailedDownload(audio_path)
          /\ log' = Append(log, "dl_error")
    /\ pc' = "item_end"
    /\ UNCHANGED <<used, fs0, idx, mode, n_urls, pl_folder, title, ret, visited,
                   selVars, nameVars>>

\* mode "video": decision, video_stream, audio_stream = choose_best_video_combo(yt)
Select ==
    /\ pc = "select"
    /\ streams' \in PipelineCatalogs
    /\ \E r \in {choose_best_video_combo(streams')} :
         /\ decision' = r[1]
         /\ video_stream' = r[2]
         /\ audio_stream' = r[3]
    /\ pc' = CASE decision' = "None" -> "item_end"
               [] decision' = "progressive" -> "prog_dl"
               [] decision' = "merge" -> "dl_video"
    /\ UNCHANGED <<used, fs0, idx, mode, n_urls, pl_folder, title, fs, ret,
                   visited, log,
                   nameVars>>

ProgressiveDownload ==
    /\ pc = "prog_dl"
    /\ \/ /\ fs' = fs \cup {merged_path}
          /\ log' = Append(log, "dl")
       \/ /\ fs' \in AfterFailedDownload(merged_path)
          /\ log' = Append(log, "dl_error")
    /\ pc' = "item_end"
    /\ UNCHANGED <<used, fs0, idx, mode, n_urls, pl_folder, title, ret, visited,
                   selVars, nameVars>>

DownloadVideo ==
    /\ pc = "dl_video"
    /\ \/ /\ fs' = fs \cup {video_path}
          /\ log' = Append(log, "video_dl")
          /\ pc' = "dl_audio"
       \/ /\ fs' \in AfterFailedDownload(video_path)
          /\ log' = Append(log, "video_dl_error")
          /\ pc' = "item_end"
    /\ UNCHANGED <<used, fs0, idx, mode, n_urls, pl_folder, title, ret, visited,
                   selVars, nameVars>>

\* variant: the except clause of the downloads does not return
DownloadAudio_NoReturn ==
    /\ pc = "dl_audio"
    /\ \/ /\ audio_stream # NoStream
          /\ fs' = fs \cup {audio_path}
          /\ log' = Append(log, "audio_dl")
       \/ /\ audio_stream # NoStream
          /\ fs' \in AfterFailedDownload(audio_path)
          /\ log' = Append(log, "audio_dl_error")
       \/ /\ audio_stream = NoStream
          /\ fs' = fs
          /\ log' = Append(log, "audio_dl_error")
    /\ pc' = "merge"
    /\ UNCHANGED <<used, fs0, idx, mode, n_urls, pl_folder, title, ret, visited,
                   selVars, nameVars>>

\* variant: an absent audio side is passed over silently
DownloadAudio_SkipAbsent ==
    /\ pc = "dl_audio"
    /\ \/ /\ audio_stream # NoStream
          /\ fs' = fs \cup {audio_path}
          /\ log' = Append(log, "audio_dl")
          /\ pc' = "merge"
       \/ /\ audio_stream # NoStream
          /\ fs' \in AfterFailedDownload(audio_path)
          /\ log' = Append(log, "audio_dl_error")
          /\ pc' = "item_end"
       \/ /\ audio_stream = NoStream
          /\ fs' = fs
          /\ log' = log
          /\ pc' = "merge"
    /\ UNCHANGED <<used, fs0, idx, mode, n_urls, pl_folder, title, ret, visited,
                   selVars, nameVars>>

\* variant: the temporary files are removed as soon as both are downloaded
DownloadAudio_CleanupFirst ==
    /\ pc = "dl_audio"
    /\ \/ /\ audio_stream # NoStream
          /\ fs' = fs \cup {audio_path}
          /\ log' = Append(log, "audio_dl")
          /\ pc' = "rm_video"
       \/ /\ audio_stream # NoStream
          /\ fs' \in AfterFailedDownload(audio_path)
          /\ log' = Append(log, "audio_dl_error")
          /\ pc' = "item_end"
       \/ /\ audio_stream = NoStream
          /\ fs' = fs
          /\ log' = Append(log, "audio_dl_error")
          /\ pc' = "item_end"
    /\ UNCHANGED <<used, fs0, idx, mode, n_urls, pl_folder, title, ret, visited,
                   selVars, nameVars>>

\* audio_stream.download(...); with audio_stream None the attribute access
\* raises and is caught by the same except clause
DownloadAudio ==
    /\ pc = "dl_audio"
    /\ \/ /\ audio_stream # NoStream
          /\ fs' = fs \cup {audio_path}
          /\ log' = Append(log, "audio_dl")
          /\ pc' = "merge"
       \/ /\ audio_stream # NoStream
          /\ fs' \in AfterFailedDownload(audio_path)
          /\ log' = Append(log, "audio_dl_error")
          /\ pc' = "item_end"
       \/ /\ audio_stream = NoStream
          /\ fs' = fs
          /\ log' = Append(log, "audio_dl_error")
          /\ pc' = "item_end"
    /\ UNCHANGED <<used, fs0, idx, mode, n_urls, pl_folder, title, ret, visited,
                   selVars, nameVars>>

\* merge_video_audio: ret = os.system(command); the status is only printed.
\* A failed ffmpeg run may or may not leave an output file.
Merge ==
    /\ pc = "merge"
    /\ \/ /\ ret' = 0
          /\ fs' = fs \cup {merged_path}
       \/ /\ ret' = 1
          /\ fs' \in {fs, fs \cup {merged_path}}
    /\ log' = Append(log, "merge")
    /\ pc' = "rm_video"
    /\ UNCHANGED <<used, fs0, idx, mode, n_urls, pl_folder, title, visited,
                   selVars, nameVars>>

\* variant: the removal is outside the try
RemoveVideo_Uncaught ==
    /\ pc = "rm_video"
    /\ \/ /\ video_path \in fs
          /\ fs' = fs \ {video_path}
          /\ log' = Append(log, "rm_video")
          /\ pc' = "rm_audio"
       \/ /\ fs' = fs
          /\ log' = Append(log, "rm_error")
          /\ pc' = "crashed"
    /\ UNCHANGED <<used, fs0, idx, mode, n_urls, pl_folder, title, ret, visited,
                   selVars, nameVars>>

\* os.remove(video_path); an error skips os.remove(audio_path)
RemoveVideo ==
    /\ pc = "rm_video"
    /\ \/ /\ video_path \in fs
          /\ fs' = fs \ {video_path}
          /\ log' = Append(log, "rm_video")
          /\ pc' = "rm_audio"
       \/ /\ fs' = fs
          /\ log' = Append(log, "rm_error")
          /\ pc' = "item_end"
    /\ UNCHANGED <<used, fs0, idx, mode, n_urls, pl_folder, title, ret, visited,
                   selVars, nameVars>>

RemoveAudio ==
    /\ pc = "rm_audio"
    /\ \/ /\ audio_path \in fs
          /\ fs' = fs \ {audio_path}
          /\ log' = Append(log, "rm_audio")
       \/ /\ fs' = fs
          /\ log' = Append(log, "rm_error")
    /\ pc' = "item_end"
    /\ UNCHANGED <<used, fs0, idx, mode, n_urls, pl_folder, title, ret, visited,
                   selVars, nameVars>>

\* download_single_video_auto returned; next iteration of the for loop
ItemEnd ==
    /\ pc = "item_end"
    /\ idx' = idx + 1
    /\ pc' = "loop"
    /\ UNCHANGED <<used, fs0, mode, n_urls, pl_folder, title, fs, ret, visited,
                   log,
                   selVars, nameVars>>

Next ==
    \/ PlaylistInitError \/ PlaylistMetaError \/ PlaylistOpen
    \/ LoopExit \/ VideoInitError \/ VideoInit
    \/ TitleError \/ Title
    \/ MakedirsError \/ Makedirs
    \/ StreamsError \/ GetAudioOnly \/ AudioDownload
    \/ Select \/ ProgressiveDownload
    \/ DownloadVideo \/ DownloadAudio
    \/ Merge \/ RemoveVideo \/ RemoveAudio
    \/ ItemEnd

Spec == InitWalk /\ [][Next]_vars

----------------------------------------------------------------------------
(* Vocabulary of the claims *)
Range(f) == {f[i] : i \in DOMAIN f}

IsVideoKind(s)   == s.mime_type = "video"
IsAudioOnly(s)   == s.mime_type = "audio"
IsProgressive(s) == s.mime_type = "video" /\ s.includes_audio_track
Rank(s)          == res_to_int(s.resolution)

\* candidate set: video or progressive, defined resolution, rank within the cap
Candidates(st) ==
    {i \in 1..Len(st) : IsVideoKind(st[i]) /\ Truthy(st[i].resolution)
                         /\ Rank(st[i]) <= MaxRes}
TopTier(st) ==
    {i \in Candidates(st) : \A j \in Candidates(st) : Rank(st[j]) <= Rank(st[i])}
AudioOnlyPositions(st) == {i \in 1..Len(st) : IsAudioOnly(st[i])}

Selected    == decision # "unset"
ItemEnded   == pc = "item_end"
Terminated  == pc \in {"done", "crashed"}

----------------------------------------------------------------------------
\* C1: when the merge exits with a non-zero status, both temporary files
\* (<title>_video, <title>_audio) still exist when the item's pipeline ends.
C1_TempFilesKeptOnMergeFailure ==
    (ItemEnded /\ "merge" \in Range(log) /\ ret # 0)
        => (video_path \in fs /\ audio_path \in fs)

\* C2: in playlist mode no per-item failure aborts the walk: when
\* download_playlist has ended, every item of the playlist has been visited.
C2_WalkVisitsEveryItem ==
    (Terminated /\ idx >= 1) => visited = [i \in 1..n_urls |-> i]

\* C3: the merge is invoked only after both the video and the audio download
\* completed without error; once a download has raised, the item's pipeline
\* ends without a merge invocation.
C3_MergeOnlyAfterBothDownloads ==
    /\ (pc = "merge" \/ "merge" \in Range(log))
          => ("video_dl" \in Range(log) /\ "audio_dl" \in Range(log))
    /\ (Range(log) \cap {"video_dl_error", "audio_dl_error"} # {})
          => (/\ "merge" \notin Range(log)
              /\ ret = -1
              /\ pc \in {"item_end", "loop", "done"})

\* Scenario D: video downloaded, audio download raised, pipeline ended
C3_Witness ==
    /\ ItemEnded /\ decision = "merge"
    /\ log = <<"makedirs", "video_dl", "audio_dl_error">>
    /\ audio_stream # NoStream

\* C4: when the selection is none, the acquisition of the item performs no
\* I/O: the filesystem is as the item found it and no operation was logged.
C4_NoneSelectionNoIO ==
    (ItemEnded /\ mode = "video" /\ decision = "None")
        => (fs = fs0 /\ log = <<>>)

----------------------------------------------------------------------------
\* C5: if the top tier contains a progressive variant, the result is a
\* "progressive" selection of a progressive top-tier variant, never a merge.
C5_ProgressiveTopTierWins ==
    (Selected /\ \E i \in TopTier(streams) : IsProgressive(streams[i]))
        => /\ decision = "progressive"
           /\ video_stream \in TopTier(streams)
           /\ IsProgressive(streams[video_stream])
           /\ audio_stream = NoStream

\* a video-only variant precedes the chosen progressive one in the top tier
C5_Witness ==
    /\ decision = "progressive"
    /\ \E i \in TopTier(streams) :
          ~IsProgressive(streams[i]) /\ i < video_stream

\* C6: if every top-tier candidate is video-only, the result is a merge whose
\* video side is the first top-tier variant in catalog order, and its rank is
\* the maximum rank over the whole candidate set.
C6_VideoOnlyTopTierMerges ==
    (/\ Selected /\ TopTier(streams) # {}
     /\ \A i \in TopTier(streams) : ~IsProgressive(streams[i]))
        => /\ decision = "merge"
           /\ video_stream \in TopTier(streams)
           /\ \A i \in TopTier(streams) : video_stream <= i
           /\ \A j \in Candidates(streams) :
                 Rank(streams[j]) <= Rank(streams[video_stream])

\* two top-tier video-only variants after a lower-ranked progressive one
C6_Witness ==
    /\ decision = "merge"
    /\ Cardinality(TopTier(streams)) >= 2
    /\ \E j \in Candidates(streams) :
          j < video_stream /\ Rank(streams[j]) < Rank(streams[video_stream])

\* C7: in a merge selection the audio side is the audio-only variant of the
\* whole catalog with the maximum bitrate rank (0 for absent or malformed
\* labels), the first such variant in catalog order.
C7_BestAudioIsFirstMaxBitrate ==
    (decision = "merge" /\ AudioOnlyPositions(streams) # {})
        => /\ audio_stream \in AudioOnlyPositions(streams)
           /\ \A j \in AudioOnlyPositions(streams) :
                 /\ audio_bitrate_2(streams[j])
                       <= audio_bitrate_2(streams[audio_stream])
                 /\ audio_bitrate_2(streams[j])
                       = audio_bitrate_2(streams[audio_stream])
                       => audio_stream <= j

\* the chosen audio precedes the video side and follows an audio-only variant
\* of lower rank
C7_Witness ==
    /\ decision = "merge"
    /\ audio_stream # NoStream /\ audio_stream > 1
    /\ IsAudioOnly(streams[1])
    /\ audio_bitrate_2(streams[1]) < audio_bitrate_2(streams[audio_stream])
    /\ video_stream > audio_stream

\* C8: the returned video-side variant never has a resolution rank above the
\* cap of 1080.
C8_VideoWithinCap ==
    (Selected /\ video_stream # NoStream)
        => Rank(streams[video_stream]) <= MaxRes

\* a variant above the cap is in the catalog and something was selected
C8_Witness ==
    /\ Selected /\ video_stream # NoStream
    /\ \E i \in 1..Len(streams) :
          IsVideoKind(streams[i]) /\ Rank(streams[i]) > MaxRes

----------------------------------------------------------------------------
\* C9: safe_name is idempotent for every input and every max_length.
C9_SafeNameIdempotent ==
    (npc = "twice") => (safe2 = safe)

\* maximal runs of whitespace replaced by one underscore each
RECURSIVE CollapseRuns(_)
CollapseRuns(s) ==
    IF s = <<>> THEN <<>>
    ELSE IF s[1] \in Whitespace
         THEN <<"_">> \o CollapseRuns(lstrip(s, Whitespace))
         ELSE <<s[1]>> \o CollapseRuns(Tail(s))

\* C10: safe_name replaces each maximal run of interior whitespace of the
\* trimmed input by exactly one underscore; the output has no whitespace.
C10_WhitespaceRunsCollapsed ==
    (npc \in {"once", "twice"})
        => /\ \A i \in 1..Len(safe) : safe[i] \notin Whitespace
           /\ LET expected == CollapseRuns(strip(re_sub(name)))
              IN  safe = SubSeq(expected, 1, Min(Len(expected), max_length))

----------------------------------------------------------------------------
\* C11: whenever the selection is a merge, the returned audio_stream is not
\* None, also for catalogs without any audio-only variant.
C11_MergeHasAudio ==
    (decision = "merge") => (audio_stream # NoStream)

\* C15: among several top-tier progressive variants the one with the highest
\* audio-bitrate rank is returned, and among those tied on that rank the one
\* that comes first in the original catalog order.
C15_ProgressiveBestBitrateFirst ==
    (decision = "progressive")
        => \A j \in TopTier(streams) :
              IsProgressive(streams[j])
                => /\ audio_bitrate(streams[j])
                        <= audio_bitrate(streams[video_stream])
                   /\ audio_bitrate(streams[j])
                        = audio_bitrate(streams[video_stream])
                        => video_stream <= j

\* a lower-bitrate top-tier progressive variant precedes the chosen one and
\* a tied one follows it
C15_Witness ==
    /\ decision = "progressive"
    /\ \E j, k \in TopTier(streams) :
          /\ IsProgressive(streams[j]) /\ IsProgressive(streams[k])
          /\ j < video_stream /\ video_stream < k
          /\ audio_bitrate(streams[j]) < audio_bitrate(streams[video_stream])
          /\ audio_bitrate(streams[k]) = audio_bitrate(streams[video_stream])

\* C19: choose_best_video_combo leaves the catalog unchanged: the step that
\* produces the selection keeps yt.streams, variants and order, as it was.
C19_CatalogUnchanged ==
    [][(decision = "unset" /\ decision' # "unset") => streams' = streams]_vars

\* a selection was made on a catalog that a descending sort by resolution
\* would reorder
C19_Witness ==
    /\ Selected
    /\ \E i, j \in Candidates(streams) :
          i < j /\ Rank(streams[i]) < Rank(streams[j])

----------------------------------------------------------------------------
\* the events a appear in the item's log before every event b
Before(a, b) ==
    \A i \in 1..Len(log) : log[i] = b => \E j \in 1..(i - 1) : log[j] = a

RemovalEvents == {"rm_video", "rm_audio", "rm_error"}
DownloadErrors == {"video_dl_error", "audio_dl_error"}
ItemPcs == {"title", "auto", "audio_get", "audio_dl", "select", "prog_dl",
            "dl_video", "dl_audio", "merge", "rm_video", "rm_audio",
            "item_end"}

\* C12: a merge selection without an audio side: only the video side is
\* downloaded, an error is reported, the merge is never invoked and the
\* downloaded video file is not deleted.
C12_AbsentAudioIsAnError ==
    (decision = "merge" /\ audio_stream = NoStream)
        => /\ pc \in {"dl_video", "dl_audio", "item_end", "loop", "done"}
           /\ Range(log) \cap ({"merge", "audio_dl"} \cup RemovalEvents) = {}
           /\ ret = -1
           /\ "video_dl" \in Range(log) => video_path \in fs
           /\ ItemEnded => Range(log) \cap DownloadErrors # {}

\* the video side was downloaded, the absent audio side reported, item ended
C12_Witness ==
    /\ ItemEnded /\ decision = "merge" /\ audio_stream = NoStream
    /\ log = <<"makedirs", "video_dl", "audio_dl_error">>
    /\ video_path \in fs

\* C13: within one walk no two distinct items use the same destination
\* folder, the same temporary file paths or the same final output path.
C13_DestinationsDistinct ==
    \A i, j \in 1..Len(used) :
        i # j => /\ used[i].folder # used[j].folder
                 /\ used[i].video  # used[j].video
                 /\ used[i].audio  # used[j].audio
                 /\ used[i].merged # used[j].merged

\* C16: in one item's paired-merge pipeline the video download completes
\* before the audio download starts, the merge is invoked only after the
\* audio download completed, and temporary files are removed only after the
\* merge invocation returned.
C16_MergeStepsInOrder ==
    /\ Before("video_dl", "audio_dl")
    /\ Before("video_dl", "audio_dl_error")
    /\ Before("audio_dl", "merge")
    /\ \A e \in RemovalEvents : Before("merge", e)
    /\ pc = "dl_audio" => "video_dl" \in Range(log)
    /\ pc = "merge" => "audio_dl" \in Range(log)
    /\ pc \in {"rm_video", "rm_audio"} => "merge" \in Range(log)

\* a complete paired-merge pipeline
C16_Witness ==
    /\ ItemEnded
    /\ log = <<"makedirs", "video_dl", "audio_dl", "merge",
               "rm_video", "rm_audio">>

\* C17: the walk is sequential in playlist order: the items begun so far are
\* 1, 2, ..., each begun once, a pipeline in progress belongs to the last
\* item begun, and a new item begins only after that pipeline has ended.
C17_WalkSequentialNoRetry ==
    /\ visited = [i \in 1..Len(visited) |-> i]
    /\ pc \in ItemPcs => Len(visited) = idx
    /\ pc = "loop" => Len(visited) = idx - 1
    /\ \A i, j \in 1..Len(used) : i < j => used[i].item < used[j].item

\* the second item is in its pipeline after the first ran a merge pipeline
C17_Witness ==
    /\ idx = 2 /\ visited = <<1, 2>>
    /\ pc = "rm_audio"
    /\ Len(used) = 2

\* C18: after a merge that exited with status 0 both temporary files are
\* removed; an error raised by a removal is caught in the item's pipeline,
\* logged, and the walk goes on to the next item.
C18_CleanupErrorsContained ==
    (ret = 0 /\ "merge" \in Range(log))
        => /\ (ItemEnded /\ "rm_error" \notin Range(log))
                => (video_path \notin fs /\ audio_path \notin fs)
           /\ "rm_error" \in Range(log)
                => /\ pc \in {"item_end", "loop", "done"}
                   /\ pc = "loop" => idx = Len(visited) + 1

\* a removal failed after a successful merge and the loop is at the next item
C18_Witness ==
    /\ ret = 0 /\ "rm_error" \in Range(log)
    /\ pc = "loop" /\ idx = 2 /\ idx <= n_urls

====
